---- MODULE Spec2Model ----
(***************************************************************************)
(* Model of build.py: a sequential pipeline that discovers markdown files  *)
(* under SOURCE_DIR, converts each one with pandoc through a normalized    *)
(* temporary copy, writes main.tex and runs xelatex twice.                 *)
(*                                                                         *)
(* Python strings (paths) are sequences of one-character strings, so that  *)
(* sorting, substring tests, basename/dirname and str.replace are computed *)
(* the way the code computes them.  File contents are sequences of tokens  *)
(* ("#", " ", "\n", "Chapter", "1", ":", "T"): the keyword is one token,   *)
(* "1" stands for a digit and "T" for any other character.                 *)
(***************************************************************************)
EXTENDS Integers, Sequences, FiniteSets, TLC

VARIABLES
    tree,        \* paths of the regular files under SOURCE_DIR before the run
    disk,        \* the filesystem: path -> content
    pc,          \* position of main()
    exc,         \* the exception that terminated main(), or "none"
    stack,       \* os.walk: directories still to be yielded
    files,       \* get_markdown_files: the list in traversal order
    md_files,    \* main: the list get_markdown_files returned
    idx,         \* main: 1-based position of the for loop in md_files
    tex_files,   \* main: output paths appended so far
    calls,       \* subprocess.run invocations so far, with their outcome
    content,     \* normalizer: the input text
    once,        \* normalizer: the text after one re.sub
    twice,       \* normalizer: the text after a second re.sub
    npc          \* normalizer: how many times re.sub was applied

pvars == <<tree, disk, pc, exc, stack, files, md_files, idx, tex_files, calls>>
nvars == <<content, once, twice, npc>>
vars == <<tree, disk, pc, exc, stack, files, md_files, idx, tex_files, calls,
          content, once, twice, npc>>

---------------------------------------------------------------------------
(* Bounds *)

\* at most this many files exist under SOURCE_DIR
MaxFiles == 3

\* an input text of the normalizer is made of at most this many pieces
MaxPieces == 4

---------------------------------------------------------------------------
(* Python strings *)

\* code point of a character: str comparison in files.sort()
Ord(c) ==
    CASE c = "." -> 46 [] c = "/" -> 47 [] c = "0" -> 48 [] c = "1" -> 49
      [] c = "A" -> 65 [] c = "B" -> 66 [] c = "C" -> 67 [] c = "D" -> 68
      [] c = "E" -> 69 [] c = "F" -> 70 [] c = "L" -> 76 [] c = "N" -> 78
      [] c = "O" -> 79 [] c = "S" -> 83 [] c = "T" -> 84 [] c = "_" -> 95
      [] c = "a" -> 97 [] c = "b" -> 98 [] c = "d" -> 100 [] c = "e" -> 101
      [] c = "h" -> 104 [] c = "i" -> 105 [] c = "k" -> 107 [] c = "l" -> 108
      [] c = "m" -> 109 [] c = "n" -> 110 [] c = "o" -> 111 [] c = "p" -> 112
      [] c = "s" -> 115 [] c = "t" -> 116 [] c = "u" -> 117 [] c = "x" -> 120

\* a < b for Python str: the first differing character decides, a proper
\* prefix is smaller
LexLess(a, b) ==
    \E i \in 1..(Len(b)) :
        /\ i <= Len(a) + 1
        /\ \A j \in 1..(i - 1) : a[j] = b[j]
        /\ \/ i = Len(a) + 1
           \/ Ord(a[i]) < Ord(b[i])

\* s.endswith(suffix)
EndsWith(s, suffix) ==
    /\ Len(s) >= Len(suffix)
    /\ SubSeq(s, Len(s) - Len(suffix) + 1, Len(s)) = suffix

\* sub in s
Contains(s, sub) ==
    \E i \in 1..(Len(s) - Len(sub) + 1) : SubSeq(s, i, i + Len(sub) - 1) = sub

\* position of the last "/" of p, 0 when there is none
LastSlash(p) ==
    IF \E i \in 1..Len(p) : p[i] = "/"
    THEN CHOOSE i \in 1..Len(p) :
            p[i] = "/" /\ \A j \in (i + 1)..Len(p) : p[j] # "/"
    ELSE 0

\* os.path.basename(p)
Basename(p) == SubSeq(p, LastSlash(p) + 1, Len(p))

\* os.path.dirname(p), for paths without doubled slashes 
Dirname(p) ==
    IF LastSlash(p) <= 1 THEN SubSeq(p, 1, LastSlash(p))
    ELSE SubSeq(p, 1, LastSlash(p) - 1)

\* os.path.join(a, b) for a relative b
Join(a, b) == a \o <<"/">> \o b

\* s.replace(old, new): every non-overlapping occurrence, left to right
RECURSIVE Replace(_, _, _)
Replace(s, old, new) ==
    IF Len(s) < Len(old) THEN s
    ELSE IF SubSeq(s, 1, Len(old)) = old
         THEN new \o Replace(SubSeq(s, Len(old) + 1, Len(s)), old, new)
         ELSE <<Head(s)>> \o Replace(Tail(s), old, new)

---------------------------------------------------------------------------
(* Module constants of build.py *)

SOURCE_DIR == <<"/", "h", "o", "m", "e", "/", "m", "s", "i", "/", "D", "e", "s", "k", "t", "o", "p", "/", "b", "o", "o", "k">>
BUILD_DIR == <<"/", "h", "o", "m", "e", "/", "m", "s", "i", "/", "D", "e", "s", "k", "t", "o", "p", "/", "b", "o", "o", "k", "/", "l", "a", "t", "e", "x", "_", "b", "u", "i", "l", "d">>
PREAMBLE_PATH == Join(BUILD_DIR, <<"p", "r", "e", "a", "m", "b", "l", "e", ".", "t", "e", "x">>)
TITLEPAGE_PATH == Join(BUILD_DIR, <<"t", "i", "t", "l", "e", "p", "a", "g", "e", ".", "t", "e", "x">>)
MAIN_TEX_PATH == Join(BUILD_DIR, <<"m", "a", "i", "n", ".", "t", "e", "x">>)


---------------------------------------------------------------------------
(* The files the run may find on disk *)

\* a regular file's content
Md(body) == [kind |-> "md", body |-> body]

\* the candidate files: path relative to SOURCE_DIR and content
Universe ==
    { [rel |-> <<"a", "_", "0", "1", ".", "m", "d">>,
       body |-> <<"#", " ", "Chapter", " ", "1", ":", " ", "T">>],
      [rel |-> <<"a", "/", "0", "1", ".", "m", "d">>,
       body |-> <<"T">>],
      [rel |-> <<"b", "/", "0", "1", ".", "m", "d">>,
       body |-> <<"#", " ", "Chapter", " ", "1", ":", " ",
                  "Chapter", " ", "1", ":", " ", "T">>],
      [rel |-> <<"a", "/", "T", "A", "B", "L", "E", "_", "O", "F", "_", "C", "O", "N", "T", "E", "N", "T", "S", ".", "m", "d">>,
       body |-> <<"T", "\n", "T">>],
      [rel |-> <<"l", "a", "t", "e", "x", "_", "b", "u", "i", "l", "d", "/", "x", ".", "m", "d">>,
       body |-> <<"#", " ", "T">>],
      [rel |-> <<"l", "a", "t", "e", "x", "_", "b", "u", "i", "l", "d", "/", "o", "l", "d", "/", "0", "1", ".", "m", "d">>,
       body |-> <<"T", "T">>],
      [rel |-> <<"a", "/", "n", "o", "t", "e", "s", ".", "t", "x", "t">>,
       body |-> <<"T", "T", "T">>],
      [rel |-> <<"m", "a", "i", "n", ".", "m", "d">>,
       body |-> <<"#", " ", " ", "Chapter", " ", "1", ":", "T", "\n", "T">>],
      [rel |-> <<"a", "/", "b", "o", "o", "k", "/", "m", "a", "i", "n", ".", "m", "d">>,
       body |-> <<"T", "\n", "#", " ", "Chapter", " ", "1", ":", " ", "T">>] }

\* the content a candidate file has before the run
Content0(path) ==
    (CHOOSE u \in Universe : Join(SOURCE_DIR, u.rel) = path).body

\* open(p, "w") ... write(v)
Write(d, p, v) == (p :> v) @@ d

\* os.remove(p)
Remove(d, p) == [q \in DOMAIN d \ {p} |-> d[q]]

\* all orders in which the members of a set can be listed
Perms(S) ==
    { f \in [1..Cardinality(S) -> S] :
        \A i, j \in 1..Cardinality(S) : i # j => f[i] # f[j] }

---------------------------------------------------------------------------
(* get_markdown_files *)

\* the directories between SOURCE_DIR and a file
RECURSIVE DirsAbove(_)
DirsAbove(p) ==
    IF Len(Dirname(p)) <= Len(SOURCE_DIR) THEN {SOURCE_DIR}
    ELSE {Dirname(p)} \cup DirsAbove(Dirname(p))

\* every directory under SOURCE_DIR once main has made BUILD_DIR
Dirs == {SOURCE_DIR, BUILD_DIR} \cup UNION { DirsAbove(p) : p \in tree }

\* os.walk: the filenames of one directory
FilenamesIn(root) == { Basename(p) : p \in { q \in tree : Dirname(q) = root } }

\* os.walk: the sub-directories of one directory
SubdirsOf(root) == { d \in Dirs : d # SOURCE_DIR /\ Dirname(d) = root }

\* SkipRoot that skips only the output directory itself, not what is below
SkipRootExact(root) == root = BUILD_DIR

\* if "latex_build" in root: continue
SkipRoot(root) == Contains(root, <<"l", "a", "t", "e", "x", "_", "b", "u", "i", "l", "d">>)

\* filename.endswith(".md") and filename != "TABLE_OF_CONTENTS.md"
Eligible(filename) ==
    /\ EndsWith(filename, <<".", "m", "d">>)
    /\ filename # <<"T", "A", "B", "L", "E", "_", "O", "F", "_", "C", "O", "N", "T", "E", "N", "T", "S", ".", "m", "d">>

\* the paths one os.walk iteration appends to files
Collect(root, filenames) ==
    IF SkipRoot(root) THEN <<>>
    ELSE LET sel == SelectSeq(filenames, Eligible)
         IN  [i \in 1..Len(sel) |-> Join(root, sel[i])]

\* files.sort(): ascending by str comparison
RECURSIVE Insert(_, _)
Insert(x, s) ==
    IF s = <<>> THEN <<x>>
    ELSE IF LexLess(x, Head(s)) THEN <<x>> \o s
         ELSE <<Head(s)>> \o Insert(x, Tail(s))

\* Sort with the call of files.sort() left out
SortOmitted(s) == s

RECURSIVE Sort(_)
Sort(s) == IF s = <<>> THEN <<>> ELSE Insert(Head(s), Sort(Tail(s)))

---------------------------------------------------------------------------
(* convert_md_to_tex *)

\* \s of the pattern
IsSpace(c) == c \in {" ", "\n"}

\* \d of the pattern
IsDigit(c) == c = "1"

\* first position at or after i that holds no whitespace
RECURSIVE SkipSpaces(_, _)
SkipSpaces(s, i) ==
    IF i <= Len(s) /\ IsSpace(s[i]) THEN SkipSpaces(s, i + 1) ELSE i

\* first position at or after i that holds no digit
RECURSIVE SkipDigits(_, _)
SkipDigits(s, i) ==
    IF i <= Len(s) /\ IsDigit(s[i]) THEN SkipDigits(s, i + 1) ELSE i

\* ^ under re.MULTILINE: the start of the text or just after a newline
AtLineStart(s, i) == i = 1 \/ s[i - 1] = "\n"

\* MatchEnd for the pattern #<space>Chapter<space>\d+:\s* with single spaces
MatchEndStrict(s, i) ==
    LET e == SkipDigits(s, i + 4)
    IN  IF /\ i + 5 <= Len(s)
           /\ s[i] = "#" /\ s[i + 1] = " "
           /\ s[i + 2] = "Chapter" /\ s[i + 3] = " "
           /\ e > i + 4
           /\ e <= Len(s) /\ s[e] = ":"
        THEN SkipSpaces(s, e + 1)
        ELSE 0

\* the position just after a match of #\s+Chapter\s+\d+:\s* that begins
\* at i, or 0 when none begins there
MatchEnd(s, i) ==
    LET b == SkipSpaces(s, i + 1)
        d == SkipSpaces(s, b + 1)
        e == SkipDigits(s, d)
    IN  IF /\ i <= Len(s) /\ s[i] = "#"
           /\ b > i + 1
           /\ b <= Len(s) /\ s[b] = "Chapter"
           /\ d > b + 1
           /\ e > d
           /\ e <= Len(s) /\ s[e] = ":"
        THEN SkipSpaces(s, e + 1)
        ELSE 0

\* Sub that stops after its first replacement (count=1)
RECURSIVE SubFirstOnly(_, _)
SubFirstOnly(s, i) ==
    IF i > Len(s) THEN <<>>
    ELSE IF AtLineStart(s, i) /\ MatchEnd(s, i) > 0
         THEN <<"#", " ">> \o SubSeq(s, MatchEnd(s, i), Len(s))
         ELSE <<s[i]>> \o SubFirstOnly(s, i + 1)

\* re.sub scanning from position i: every match is replaced by "# "
RECURSIVE Sub(_, _)
Sub(s, i) ==
    IF i > Len(s) THEN <<>>
    ELSE IF AtLineStart(s, i) /\ MatchEnd(s, i) > 0
         THEN <<"#", " ">> \o Sub(s, MatchEnd(s, i))
         ELSE <<s[i]>> \o Sub(s, i + 1)

\* re.sub(r'^#\s+Chapter\s+\d+:\s*', '# ', content, flags=re.MULTILINE)
Normalize(s) == Sub(s, 1)

\* TempPath without the suffix: the rewrite would go to the source itself
TempPathInPlace(md_file) == md_file

\* temp_md = md_file + ".temp"
TempPath(md_file) == md_file \o <<".", "t", "e", "m", "p">>

\* what the pandoc process leaves on disk
PandocEffect(d, temp_md, output_tex, outcome, partial) ==
    IF outcome = "ok" /\ temp_md \in DOMAIN d
    THEN Write(d, output_tex, [kind |-> "tex", body |-> d[temp_md].body])
    ELSE IF outcome = "nonzero" /\ partial
         THEN Write(d, output_tex, [kind |-> "tex", body |-> <<>>])
         ELSE d

\* PandocRaises without check=True: a non-zero exit raises nothing
PandocRaisesUnchecked(outcome) ==
    IF outcome = "nostart" THEN "FileNotFoundError" ELSE "none"

\* subprocess.run(cmd, check=True) for pandoc: the exception it raises
PandocRaises(outcome) ==
    CASE outcome = "ok" -> "none"
      [] outcome = "nonzero" -> "CalledProcessError"
      [] outcome = "nostart" -> "FileNotFoundError"

\* RemoveTemp with the cleanup left out
RemoveTempSkipped(d, temp_md) == d

\* finally: if os.path.exists(temp_md): os.remove(temp_md)
RemoveTemp(d, temp_md) == IF temp_md \in DOMAIN d THEN Remove(d, temp_md) ELSE d

---------------------------------------------------------------------------
(* generate_main_tex *)

\* f.write(text + "\n")
Line(text) == text \o <<"\n">>

\* \input{name}
InputLine(name) == Line(<<"\\", "i", "n", "p", "u", "t", "{">> \o name \o <<"}">>)

\* the for loop of generate_main_tex: one \input per entry, by basename
RECURSIVE InputLines(_)
InputLines(tfs) ==
    IF tfs = <<>> THEN <<>>
    ELSE InputLine(Basename(Head(tfs))) \o InputLines(Tail(tfs))

\* the text generate_main_tex writes to main.tex
MainTex(tfs) ==
    Line(<<"\\", "d", "o", "c", "u", "m", "e", "n", "t", "c", "l", "a", "s", "s", "[", "1", "2", "p", "t", ",", " ", "a", "4", "p", "a", "p", "e", "r", "]", "{", "r", "e", "p", "o", "r", "t", "}">>)
    \o InputLine(Basename(PREAMBLE_PATH))
    \o Line(<<"\\", "b", "e", "g", "i", "n", "{", "d", "o", "c", "u", "m", "e", "n", "t", "}">>)
    \o InputLine(Basename(TITLEPAGE_PATH))
    \o Line(<<"\\", "t", "a", "b", "l", "e", "o", "f", "c", "o", "n", "t", "e", "n", "t", "s">>)
    \o Line(<<"\\", "n", "e", "w", "p", "a", "g", "e">>)
    \o InputLines(tfs)
    \o Line(<<"\\", "e", "n", "d", "{", "d", "o", "c", "u", "m", "e", "n", "t", "}">>)

---------------------------------------------------------------------------
(* main *)

\* base_name as main computes it for one md_file
BaseName(md_file) ==
    LET base_name == Replace(Basename(md_file), <<".", "m", "d">>, <<".", "t", "e", "x">>)
        parent_dir == Basename(Dirname(md_file))
    IN  IF parent_dir # <<>> /\ parent_dir # <<"b", "o", "o", "k">>
        THEN parent_dir \o <<"_">> \o base_name
        ELSE base_name

\* output_tex = os.path.join(BUILD_DIR, base_name)
OutputTex(md_file) == Join(BUILD_DIR, BaseName(md_file))

\* XelatexRaises without check=True: a non-zero exit raises nothing
XelatexRaisesUnchecked(outcome) ==
    IF outcome = "nostart" THEN "FileNotFoundError" ELSE "none"

\* subprocess.run([...xelatex...], check=True): the exception it raises
XelatexRaises(outcome) ==
    CASE outcome = "ok" -> "none"
      [] outcome = "nonzero" -> "CalledProcessError"
      [] outcome = "nostart" -> "FileNotFoundError"

\* how an external process can end: exit 0, exit non-zero, not started
Outcomes == {"ok", "nonzero", "nostart"}

Trees ==
    { { Join(SOURCE_DIR, u.rel) : u \in us } :
        us \in { x \in SUBSET Universe : Cardinality(x) <= MaxFiles } }

Init ==
    /\ tree \in Trees
    /\ disk = [p \in tree |-> Md(Content0(p))]
    /\ pc = "start"
    /\ exc = "none"
    /\ stack = <<>>
    /\ files = <<>>
    /\ md_files = <<>>
    /\ idx = 1
    /\ tex_files = <<>>
    /\ calls = <<>>
    /\ content = <<>>
    /\ once = <<>>
    /\ twice = <<>>
    /\ npc = "off"

\* if not os.path.exists(BUILD_DIR): os.makedirs(BUILD_DIR); then the call
\* of get_markdown_files begins the walk at SOURCE_DIR
Start ==
    /\ pc = "start" /\ exc = "none"
    /\ pc' = "walk"
    /\ stack' = <<SOURCE_DIR>>
    /\ UNCHANGED <<tree, disk, exc, files, md_files, idx, tex_files, calls>>
    /\ UNCHANGED nvars

\* one iteration of "for root, dirs, filenames in os.walk(SOURCE_DIR)"; the
\* order of the directory entries is the filesystem's.  After the last
\* iteration the list is sorted and returned.
WalkDir ==
    /\ pc = "walk" /\ exc = "none"
    /\ stack # <<>>
    /\ \E filenames \in Perms(FilenamesIn(Head(stack))),
          dirs \in Perms(SubdirsOf(Head(stack))) :
        /\ files' = files \o Collect(Head(stack), filenames)
        /\ stack' = dirs \o Tail(stack)
        /\ IF stack' = <<>>
           THEN md_files' = Sort(files') /\ pc' = "loop"
           ELSE UNCHANGED <<md_files, pc>>
    /\ UNCHANGED <<tree, disk, exc, idx, tex_files, calls>>
    /\ UNCHANGED nvars

\* the loop body of main up to the call of pandoc: the source is read
\* (open succeeds only for a file that is on disk), normalized and written
\* to the temporary copy
ConvertWrite ==
    /\ pc = "loop" /\ exc = "none"
    /\ idx <= Len(md_files)
    /\ md_files[idx] \in DOMAIN disk
    /\ disk' = Write(disk, TempPath(md_files[idx]),
                     Md(Normalize(disk[md_files[idx]].body)))
    /\ pc' = "pandoc"
    /\ UNCHANGED <<tree, exc, stack, files, md_files, idx, tex_files, calls>>
    /\ UNCHANGED nvars

\* subprocess.run(pandoc) with its finally block, and the append in main
RunPandoc ==
    /\ pc = "pandoc" /\ exc = "none"
    /\ \E outcome \in Outcomes,
          partial \in BOOLEAN :
        LET md_file == md_files[idx]
            temp_md == TempPath(md_file)
            output_tex == OutputTex(md_file)
        IN  /\ partial => outcome = "nonzero"
            /\ disk' = RemoveTemp(
                          PandocEffect(disk, temp_md, output_tex, outcome, partial),
                          temp_md)
            /\ calls' = Append(calls, [prog |-> "pandoc", input |-> temp_md,
                                       output |-> output_tex, status |-> outcome])
            /\ exc' = PandocRaises(outcome)
            /\ IF exc' = "none"
               THEN /\ tex_files' = Append(tex_files, output_tex)
                    /\ idx' = idx + 1
                    /\ pc' = "loop"
               ELSE UNCHANGED <<tex_files, idx, pc>>
    /\ UNCHANGED <<tree, stack, files, md_files>>
    /\ UNCHANGED nvars

\* generate_main_tex(tex_files)
GenerateMainTex ==
    /\ pc = "loop" /\ exc = "none"
    /\ idx > Len(md_files)
    /\ disk' = Write(disk, MAIN_TEX_PATH, [kind |-> "tex", body |-> MainTex(tex_files)])
    /\ pc' = "xelatex1"
    /\ UNCHANGED <<tree, exc, stack, files, md_files, idx, tex_files, calls>>
    /\ UNCHANGED nvars

\* the first subprocess.run(xelatex)
Xelatex1 ==
    /\ pc = "xelatex1" /\ exc = "none"
    /\ \E outcome \in Outcomes :
        /\ calls' = Append(calls, [prog |-> "xelatex", input |-> <<"m", "a", "i", "n", ".", "t", "e", "x">>,
                                   output |-> BUILD_DIR, status |-> outcome])
        /\ exc' = XelatexRaises(outcome)
        /\ pc' = IF exc' = "none" THEN "xelatex2" ELSE pc
    /\ UNCHANGED <<tree, disk, stack, files, md_files, idx, tex_files>>
    /\ UNCHANGED nvars

\* the second subprocess.run(xelatex), then the closing print
Xelatex2 ==
    /\ pc = "xelatex2" /\ exc = "none"
    /\ \E outcome \in Outcomes :
        /\ calls' = Append(calls, [prog |-> "xelatex", input |-> <<"m", "a", "i", "n", ".", "t", "e", "x">>,
                                   output |-> BUILD_DIR, status |-> outcome])
        /\ exc' = XelatexRaises(outcome)
        /\ pc' = IF exc' = "none" THEN "complete" ELSE pc
    /\ UNCHANGED <<tree, disk, stack, files, md_files, idx, tex_files>>
    /\ UNCHANGED nvars

Next ==
    \/ Start
    \/ WalkDir
    \/ ConvertWrite
    \/ RunPandoc
    \/ GenerateMainTex
    \/ Xelatex1
    \/ Xelatex2

Spec == Init /\ [][Next]_vars


---------------------------------------------------------------------------
(* The normalizer on its own: one text, rewritten once and once more *)

\* the fragments input texts are built from
Pieces ==
    { <<"#">>, <<" ">>, <<"\n">>, <<"Chapter">>, <<"1">>, <<":">>, <<"T">>,
      <<"Chapter", " ", "1">>,
      <<"Chapter", " ", "1", ":">>,
      <<"Chapter", " ", "1", ":", " ", "T">>,
      <<"#", " ", "Chapter", " ", "1", ":">> }

RECURSIVE Flatten(_)
Flatten(ps) == IF ps = <<>> THEN <<>> ELSE Head(ps) \o Flatten(Tail(ps))

\* the input texts: up to MaxPieces fragments in a row
Texts == { Flatten(ps) : ps \in UNION { [1..n -> Pieces] : n \in 0..MaxPieces } }

InitNorm ==
    /\ content \in Texts
    /\ once = <<>>
    /\ twice = <<>>
    /\ npc = "read"
    /\ tree = {}
    /\ disk = <<>>
    /\ pc = "off"
    /\ exc = "none"
    /\ stack = <<>>
    /\ files = <<>>
    /\ md_files = <<>>
    /\ idx = 1
    /\ tex_files = <<>>
    /\ calls = <<>>

\* content = re.sub(...), applied to the text read from the file
NormalizeOnce ==
    /\ npc = "read"
    /\ once' = Normalize(content)
    /\ npc' = "once"
    /\ UNCHANGED <<content, twice>>
    /\ UNCHANGED pvars

\* the same re.sub applied to the text it produced
NormalizeAgain ==
    /\ npc = "once"
    /\ twice' = Normalize(once)
    /\ npc' = "twice"
    /\ UNCHANGED <<content, once>>
    /\ UNCHANGED pvars

NextNorm ==
    \/ NormalizeOnce
    \/ NormalizeAgain

SpecNorm == InitNorm /\ [][NextNorm]_vars


---------------------------------------------------------------------------
(* Vocabulary of the properties *)

\* main has returned or died with an exception
Terminated == pc = "complete" \/ exc # "none"

\* generate_main_tex has run
Assembled == pc \in {"xelatex1", "xelatex2", "complete"}

\* the set of the paths get_markdown_files returned
Discovered == { md_files[i] : i \in 1..Len(md_files) }

\* the lines of a text, without their newlines
RECURSIVE SplitLines(_)
SplitLines(t) ==
    IF t = <<>> THEN <<>>
    ELSE IF \E k \in 1..Len(t) : t[k] = "\n"
         THEN LET k == CHOOSE k \in 1..Len(t) :
                          t[k] = "\n" /\ \A j \in 1..(k - 1) : t[j] # "\n"
              IN  <<SubSeq(t, 1, k - 1)>> \o SplitLines(SubSeq(t, k + 1, Len(t)))
         ELSE <<t>>

\* the lines of main.tex as it is on disk
DescriptorLines ==
    IF MAIN_TEX_PATH \in DOMAIN disk THEN SplitLines(disk[MAIN_TEX_PATH].body)
    ELSE <<>>

\* main.tex on disk is a whole descriptor: from \documentclass to \end{document}
DescriptorWritten ==
    /\ Len(DescriptorLines) >= 7
    /\ DescriptorLines[1] = <<"\\", "d", "o", "c", "u", "m", "e", "n", "t", "c", "l", "a", "s", "s", "[", "1", "2", "p", "t", ",", " ", "a", "4", "p", "a", "p", "e", "r", "]", "{", "r", "e", "p", "o", "r", "t", "}">>
    /\ DescriptorLines[Len(DescriptorLines)] = <<"\\", "e", "n", "d", "{", "d", "o", "c", "u", "m", "e", "n", "t", "}">>

\* the calls of one program, in order
IsPandoc(c) == c.prog = "pandoc"
IsXelatex(c) == c.prog = "xelatex"
PandocCalls == SelectSeq(calls, IsPandoc)
XelatexCalls == SelectSeq(calls, IsXelatex)

\* a path lies inside BUILD_DIR, at any depth
InsideBuildDir(p) ==
    /\ Len(p) > Len(BUILD_DIR)
    /\ SubSeq(p, 1, Len(BUILD_DIR) + 1) = BUILD_DIR \o <<"/">>

---------------------------------------------------------------------------
(* C1 *)

\* C1: a temporary copy "<source>.temp" is on disk only while the pandoc
\* call for that source is running; once convert_md_to_tex has returned or
\* raised (exit 0, exit non-zero, pandoc not started) it is gone, so none
\* exists while main.tex is written, while xelatex runs, or after main ended.
C1_TempNeverPersists ==
    \A p \in DOMAIN disk :
        EndsWith(p, <<".", "t", "e", "m", "p">>) =>
            /\ pc = "pandoc" /\ exc = "none"
            /\ p = TempPath(md_files[idx])

\* C1 witness: pandoc failed on the second file after the first converted,
\* and no temporary copy is left
C1_Witness ==
    /\ pc = "pandoc" /\ exc = "CalledProcessError"
    /\ Len(calls) = 2 /\ calls[1].status = "ok"
    /\ \A p \in DOMAIN disk : ~EndsWith(p, <<".", "t", "e", "m", "p">>)
    /\ calls[2].input \notin DOMAIN disk

---------------------------------------------------------------------------
(* C2 *)

\* C2: when pandoc exits non-zero for the k-th discovered file the run ends
\* there: that call is the last external call (no later file is converted,
\* xelatex is never run), main.tex is not written, and the output files of
\* files 1..k-1 are still on disk.
C2_ConverterFailureIsFatal ==
    \A k \in 1..Len(calls) :
        (calls[k].prog = "pandoc" /\ calls[k].status = "nonzero") =>
            /\ k = Len(calls)
            /\ calls[k].input = TempPath(md_files[k])
            /\ Terminated /\ pc # "complete"
            /\ XelatexCalls = <<>>
            /\ ~DescriptorWritten
            /\ Len(tex_files) = k - 1
            /\ \A i \in 1..(k - 1) :
                /\ tex_files[i] = OutputTex(md_files[i])
                /\ OutputTex(md_files[i]) \in DOMAIN disk

\* C2 witness: pandoc exited non-zero on the second of three files
C2_Witness ==
    /\ Len(md_files) = 3
    /\ Len(calls) = 2
    /\ calls[2].prog = "pandoc" /\ calls[2].status = "nonzero"
    /\ exc = "CalledProcessError"
    /\ OutputTex(md_files[1]) \in DOMAIN disk

---------------------------------------------------------------------------
(* C3 *)

\* the name inside \input{...}
InputName(line) == SubSeq(line, Len(<<"\\", "i", "n", "p", "u", "t", "{">>) + 1, Len(line) - 1)

\* C3: once main.tex is written, its \input lines for converted files follow
\* the ascending full-path order of the sources: the discovered list holds
\* exactly the paths the traversal collected, in strictly ascending str
\* order; the i-th pandoc call converted the i-th of them; and the i-th
\* \input names the output of that call.
C3_DescriptorInSortedOrder ==
    Assembled =>
        /\ Discovered = { files[i] : i \in 1..Len(files) }
        /\ Len(md_files) = Len(files)
        /\ \A i, j \in 1..Len(md_files) :
              i < j => LexLess(md_files[i], md_files[j])
        /\ Len(PandocCalls) = Len(md_files)
        /\ Len(DescriptorLines) = Len(md_files) + 7
        /\ \A i \in 1..Len(md_files) :
              /\ PandocCalls[i].input = md_files[i] \o <<".", "t", "e", "m", "p">>
              /\ DescriptorLines[6 + i] =
                    <<"\\", "i", "n", "p", "u", "t", "{">> \o Basename(PandocCalls[i].output) \o <<"}">>

\* C3 witness: the traversal yielded three files in another order than the
\* sorted one, and the run completed
C3_Witness ==
    /\ pc = "complete"
    /\ Len(md_files) = 3
    /\ files # md_files
    /\ InputName(DescriptorLines[7]) = BaseName(md_files[1])

---------------------------------------------------------------------------
(* C4 *)

\* C4: xelatex runs only after every conversion succeeded and main.tex is
\* wholly written; it runs at most twice, the second time only after the
\* first exited 0; a first pass that does not exit 0 ends the run with one
\* call and without completion; a run that ended after a first pass that
\* exited 0 has run xelatex exactly twice, and a completed run saw both
\* passes exit 0.
C4_RenderTwiceAfterDescriptor ==
    /\ XelatexCalls # <<>> =>
          /\ DescriptorWritten
          /\ Len(PandocCalls) = Len(md_files)
          /\ \A i \in 1..Len(PandocCalls) : PandocCalls[i].status = "ok"
          /\ \A i, j \in 1..Len(calls) :
                (calls[i].prog = "pandoc" /\ calls[j].prog = "xelatex") => i < j
    /\ Len(XelatexCalls) <= 2
    /\ Len(XelatexCalls) = 2 => XelatexCalls[1].status = "ok"
    /\ (XelatexCalls # <<>> /\ XelatexCalls[1].status # "ok") =>
          /\ Len(XelatexCalls) = 1
          /\ exc # "none" /\ pc = "xelatex1"
    /\ (Terminated /\ XelatexCalls # <<>> /\ XelatexCalls[1].status = "ok") =>
          Len(XelatexCalls) = 2
    /\ pc = "complete" =>
          /\ Len(XelatexCalls) = 2
          /\ XelatexCalls[1].status = "ok" /\ XelatexCalls[2].status = "ok"
          /\ exc = "none"

\* C4 witness: the first pass exited non-zero after two conversions; the run
\* is over with a single xelatex call
C4_Witness ==
    /\ Len(md_files) = 2
    /\ Len(XelatexCalls) = 1
    /\ XelatexCalls[1].status = "nonzero"
    /\ exc = "CalledProcessError"
    /\ DescriptorWritten

---------------------------------------------------------------------------
(* C5 *)

\* C5: no path get_markdown_files collects or returns lies inside
\* latex_build at any depth, none is named TABLE_OF_CONTENTS.md, and each
\* ends with ".md".
C5_DiscoveryExcludes ==
    \A p \in Discovered \cup { files[i] : i \in 1..Len(files) } :
        /\ ~InsideBuildDir(p)
        /\ Basename(p) # <<"T", "A", "B", "L", "E", "_", "O", "F", "_", "C", "O", "N", "T", "E", "N", "T", "S", ".", "m", "d">>
        /\ EndsWith(p, <<".", "m", "d">>)
        /\ p \in tree

\* C5 witness: the tree holds a file two levels inside latex_build, a
\* nested TABLE_OF_CONTENTS.md and a chapter; only the chapter is returned
C5_Witness ==
    /\ pc = "loop"
    /\ Len(md_files) = 1
    /\ Cardinality(tree) = 3
    /\ \E p \in tree : InsideBuildDir(p) /\ InsideBuildDir(Dirname(p))
    /\ \E p \in tree :
          Basename(p) = <<"T", "A", "B", "L", "E", "_", "O", "F", "_", "C", "O", "N", "T", "E", "N", "T", "S", ".", "m", "d">> /\ Dirname(p) # SOURCE_DIR

---------------------------------------------------------------------------
(* C6 *)

\* C6: at every point of a run, finished or aborted, each discovered source
\* file is on disk with the content it had before the run, and no path
\* pandoc was given as input (the temporary copy) or output, nor main.tex,
\* is a discovered source file.
C6_SourcesUntouched ==
    /\ \A f \in Discovered :
          /\ f \in DOMAIN disk
          /\ disk[f] = Md(Content0(f))
    /\ \A k \in 1..Len(calls) :
          calls[k].prog = "pandoc" =>
              /\ calls[k].input \notin Discovered
              /\ calls[k].output \notin Discovered
    /\ MAIN_TEX_PATH \notin Discovered

\* C6 witness: a run completed in which the rewrite changed the copy of a
\* source, and that source still has its heading prefix
C6_Witness ==
    /\ pc = "complete"
    /\ \E i \in 1..Len(md_files) :
          /\ disk[tex_files[i]].body # Content0(md_files[i])
          /\ disk[tex_files[i]].body = Normalize(Content0(md_files[i]))
          /\ disk[md_files[i]].body = Content0(md_files[i])


---------------------------------------------------------------------------
(* C7, C8 *)

\* s[b..e] is the keyword, whitespace, digits and a colon
KeywordAt(s, b, e) ==
    /\ s[b] = "Chapter"
    /\ s[e] = ":"
    /\ \E d \in (b + 2)..(e - 1) :
          /\ \A j \in (b + 1)..(d - 1) : IsSpace(s[j])
          /\ \A j \in d..(e - 1) : IsDigit(s[j])

\* s[i..e] is the marker, whitespace, the keyword, whitespace, digits and a
\* colon
HeadingAt(s, i, e) ==
    /\ s[i] = "#"
    /\ s[e] = ":"
    /\ \E b \in (i + 2)..(e - 3) :
          /\ \A j \in (i + 1)..(b - 1) : IsSpace(s[j])
          /\ KeywordAt(s, b, e)

\* some line of s begins with a heading prefix
HasHeading(s) ==
    \E i \in 1..Len(s) :
        /\ AtLineStart(s, i)
        /\ \E e \in (i + 5)..Len(s) : HeadingAt(s, i, e)

\* some heading prefix of s is followed, after optional whitespace, by the
\* keyword, whitespace, digits and a colon: the title begins with a prefix
StackedPrefix(s) ==
    \E i \in 1..Len(s) :
        /\ AtLineStart(s, i)
        /\ \E e \in (i + 5)..Len(s) :
              /\ HeadingAt(s, i, e)
              /\ \E b \in (e + 1)..Len(s) :
                    /\ \A j \in (e + 1)..(b - 1) : IsSpace(s[j])
                    /\ \E e2 \in (b + 3)..Len(s) : KeywordAt(s, b, e2)

\* some line of s begins with the marker, one space, the keyword, one space,
\* digits and a colon
HasExactHeading(s) ==
    \E i \in 1..Len(s) :
        /\ AtLineStart(s, i)
        /\ i + 5 <= Len(s)
        /\ s[i] = "#" /\ s[i + 1] = " " /\ s[i + 2] = "Chapter" /\ s[i + 3] = " "
        /\ \E e \in (i + 5)..Len(s) :
              /\ s[e] = ":"
              /\ \A j \in (i + 4)..(e - 1) : IsDigit(s[j])

\* the text after position e with its leading whitespace removed
TitleAfter(s, e) ==
    LET k == CHOOSE k \in (e + 1)..(Len(s) + 1) :
                /\ \A j \in (e + 1)..(k - 1) : IsSpace(s[j])
                /\ k <= Len(s) => ~IsSpace(s[k])
    IN  SubSeq(s, k, Len(s))

\* C7 as stated: for every text, rewriting the rewritten text changes nothing.
C7_Idempotent == npc = "twice" => twice = once

\* C7 amended: rewriting the rewritten text changes nothing for every text
\* in which no heading prefix is directly followed by the keyword, whitespace,
\* digits and a colon.
C7_IdempotentUnlessStacked ==
    (npc = "twice" /\ ~StackedPrefix(content)) => twice = once

\* C7 witness: a text with a heading prefix and a plain title was rewritten,
\* and rewriting it again left it alone
C7_Witness ==
    /\ npc = "twice"
    /\ ~StackedPrefix(content)
    /\ HasHeading(content)
    /\ once # content
    /\ twice = once
    /\ once = <<"#", " ", "T">>

---------------------------------------------------------------------------
(* C9 *)

\* the (parent-directory name, base name) pair of a path
ParentAndBase(p) == <<Basename(Dirname(p)), Basename(p)>>

\* C9: two discovered files with different (parent-directory name, base
\* name) pairs get different intermediate file names.
C9_DistinctPairsDistinctNames ==
    \A i, j \in 1..Len(md_files) :
        ParentAndBase(md_files[i]) # ParentAndBase(md_files[j])
            => BaseName(md_files[i]) # BaseName(md_files[j])

---------------------------------------------------------------------------
(* C10 *)

\* the last discovered source that maps to the same output as the i-th
LastWithSameOutput(i) ==
    CHOOSE j \in i..Len(md_files) :
        /\ OutputTex(md_files[j]) = OutputTex(md_files[i])
        /\ \A k \in (j + 1)..Len(md_files) :
              OutputTex(md_files[k]) # OutputTex(md_files[i])

\* main.tex holds one \input per discovered source, in order, after the
\* title page, \tableofcontents and \newpage and before \end{document}
OneInputPerSource ==
    /\ Len(DescriptorLines) = Len(md_files) + 7
    /\ DescriptorLines[4] = <<"\\", "i", "n", "p", "u", "t", "{", "t", "i", "t", "l", "e", "p", "a", "g", "e", ".", "t", "e", "x", "}">>
    /\ DescriptorLines[5] = <<"\\", "t", "a", "b", "l", "e", "o", "f", "c", "o", "n", "t", "e", "n", "t", "s">>
    /\ DescriptorLines[6] = <<"\\", "n", "e", "w", "p", "a", "g", "e">>
    /\ DescriptorLines[Len(DescriptorLines)] = <<"\\", "e", "n", "d", "{", "d", "o", "c", "u", "m", "e", "n", "t", "}">>
    /\ \A i \in 1..Len(md_files) :
          DescriptorLines[6 + i] = <<"\\", "i", "n", "p", "u", "t", "{">> \o BaseName(md_files[i]) \o <<"}">>

\* C10: once main.tex is written it holds exactly one \input per discovered
\* source, between \newpage and \end{document}; and when two sources map to
\* one intermediate name, the file of that name on disk holds the pandoc
\* output of the source converted last.
C10_OneInputPerSourceLastWins ==
    Assembled =>
        /\ OneInputPerSource
        /\ \A i, j \in 1..Len(md_files) :
              (i < j /\ OutputTex(md_files[i]) = OutputTex(md_files[j])) =>
                  /\ OutputTex(md_files[i]) \in DOMAIN disk
                  /\ disk[OutputTex(md_files[i])].body =
                        Normalize(Content0(md_files[LastWithSameOutput(i)]))

====
